---- MODULE Spec2Model ----
(***************************************************************************)
(* A model of the dashboard's in-memory query engine: the CSV load done by *)
(* Home and FilterBar, the filter builder and its commit (FilterBar.tsx,   *)
(* Home.tsx) and the search / sort / paginate pipeline of DataTable.tsx.   *)
(*                                                                         *)
(* JavaScript strings are sequences of one-character strings; a cell of a  *)
(* row is a tagged value (number, string, null, undefined) so that         *)
(* String(), Number(), toLowerCase(), trim() and includes() are computed   *)
(* and never taken to be the identity.                                     *)
(***************************************************************************)
EXTENDS Integers, Sequences, FiniteSets, TLC

----------------------------------------------------------------------------
(* Bounds of the model.                                                    *)

\* rows of the CSV file loaded by the system specifications
MaxRows == 12
\* clauses the filter builder may hold in its pending list
MaxPending == 2
\* largest number that is a cell of the record given to the clause matcher
MaxNum == 6
\* longest text that is a cell or an operand given to the clause matcher
MaxStrLen == 2
\* longest operand array given to the clause matcher
MaxItems == 2
\* most records given to the search stage and to the sort stage
MaxSeqLen == 3
\* most rows given to the paginate stage
MaxPageRows == 26

----------------------------------------------------------------------------
(* JavaScript strings.                                                     *)

Digits == <<"0", "1", "2", "3", "4", "5", "6", "7", "8", "9">>

IsDigit(c) == \E d \in 1..10 : Digits[d] = c

DigitValue(c) == (CHOOSE d \in 1..10 : Digits[d] = c) - 1

IsSpace(c) == c = " "

\* String.prototype.toLowerCase on one character
LowerChar(c) ==
  CASE c = "A" -> "a"
    [] c = "B" -> "b"
    [] c = "N" -> "n"
    [] c = "S" -> "s"
    [] c = "T" -> "t"
    [] OTHER -> c

ToLowerCase(s) == [i \in 1..Len(s) |-> LowerChar(s[i])]

\* String.prototype.trim
Trim(s) ==
  LET keep == {i \in 1..Len(s) : ~IsSpace(s[i])}
  IN  IF keep = {} THEN <<>>
      ELSE SubSeq(s, CHOOSE i \in keep : \A j \in keep : i <= j,
                     CHOOSE i \in keep : \A j \in keep : i >= j)

\* String.prototype.includes
Includes(s, sub) ==
  \E i \in 0..(Len(s) - Len(sub)) : SubSeq(s, i + 1, i + Len(sub)) = sub

\* Array.prototype.includes on an array of strings
ArrIncludes(arr, x) == \E i \in 1..Len(arr) : arr[i] = x

RECURSIVE NatToStr(_)
NatToStr(n) ==
  IF n < 10 THEN <<Digits[n + 1]>>
  ELSE NatToStr(n \div 10) \o <<Digits[(n % 10) + 1]>>

RECURSIVE DigitsToNat(_)
DigitsToNat(s) ==
  IF s = <<>> THEN 0
  ELSE 10 * DigitsToNat(SubSeq(s, 1, Len(s) - 1)) + DigitValue(s[Len(s)])

AllDigits(s) == Len(s) > 0 /\ \A i \in 1..Len(s) : IsDigit(s[i])

----------------------------------------------------------------------------
(* Cell values: what a field of a row can hold after the CSV is parsed.    *)

Num(n) == [t |-> "num", n |-> n, s |-> <<>>]
Str(s) == [t |-> "str", n |-> 0, s |-> s]
Null == [t |-> "null", n |-> 0, s |-> <<>>]
Undef == [t |-> "undef", n |-> 0, s |-> <<>>]

\* cell == null in JavaScript: true of null and of undefined
IsNullish(v) == v.t \in {"null", "undef"}

\* String(v)
JsString(v) ==
  CASE v.t = "num" -> NatToStr(v.n)
    [] v.t = "str" -> v.s
    [] v.t = "null" -> <<"n", "u", "l", "l">>
    [] OTHER -> <<"u", "n", "d", "e", "f", "i", "n", "e", "d">>

\* a JavaScript number of the model: a natural number or NaN
NaN == [nan |-> TRUE, n |-> 0]
Finite(n) == [nan |-> FALSE, n |-> n]

\* Number(s) for a string s: surrounding white space is dropped, the empty
\* string is 0, a run of digits is its value, anything else is NaN
StringToNumber(s) ==
  LET t == Trim(s)
  IN  IF t = <<>> THEN Finite(0)
      ELSE IF AllDigits(t) THEN Finite(DigitsToNat(t))
      ELSE NaN

\* Number(v) for a cell: Number(null) is 0, Number(undefined) is NaN
JsNumber(v) ==
  CASE v.t = "num" -> Finite(v.n)
    [] v.t = "str" -> StringToNumber(v.s)
    [] v.t = "null" -> Finite(0)
    [] OTHER -> NaN

\* the row's field, undefined when the row has no such key
Get(row, key) == IF key \in DOMAIN row THEN row[key] ELSE Undef

----------------------------------------------------------------------------
(* The CSV file (data/creatives.csv) as Papa.parse sees it: a header row   *)
(* and rows of raw text cells.                                             *)

CsvHeaders ==
  << <<"t", "a", "g">>,
     <<"c", "r", "e", "a", "t", "i", "v", "e", "_", "n", "a", "m", "e">>,
     <<"s", "p", "e", "n", "d">> >>

TagCells == << <<"a">>, <<"b", " ">>, <<>> >>
NameCells == << <<"a", "b">>, <<"B", "a">> >>
SpendCells == << <<"5">>, <<>>, <<"1", "0">>, <<"0">>, <<"a">> >>

CsvRow(i) ==
  << TagCells[(i % 3) + 1], NameCells[(i % 2) + 1], SpendCells[(i % 5) + 1] >>

CsvRows == [i \in 1..MaxRows |-> CsvRow(i)]

HeaderIndex(headers, key) == CHOOSE j \in 1..Len(headers) : headers[j] = key

\* Papa.parse with dynamicTyping: an empty cell is null, a cell that reads as
\* a number (white space around it allowed) is that number, else the text
DynamicTyping(raw) ==
  IF raw = <<>> THEN Null
  ELSE IF AllDigits(Trim(raw)) THEN Num(DigitsToNat(Trim(raw)))
  ELSE Str(raw)

\* typeof v === "string" ? v.trim() : v
Cleaned(v) == IF v.t = "str" THEN Str(Trim(v.s)) ELSE v

IdKey == <<"i", "d">>

\* the headers after transformHeader: (h) => h.trim()
TrimmedHeaders == [j \in 1..Len(CsvHeaders) |-> Trim(CsvHeaders[j])]

\* one row of tableData: { id: index } and every cell typed and trimmed
ParseHomeRow(raw, index) ==
  [k \in {IdKey} \cup {TrimmedHeaders[j] : j \in 1..Len(TrimmedHeaders)} |->
     IF k = IdKey THEN Num(index)
     ELSE Cleaned(DynamicTyping(raw[HeaderIndex(TrimmedHeaders, k)]))]

\* res.data.map((row, index) => ...): index counts from 0
ParseHome(csvRows) ==
  [i \in 1..Len(csvRows) |-> ParseHomeRow(csvRows[i], i - 1)]

\* Object.keys(data[0]): id first, then the headers in file order
Columns(data) == IF Len(data) > 0 THEN <<IdKey>> \o TrimmedHeaders ELSE <<>>

----------------------------------------------------------------------------
(* FilterBar: the column classification and the filter clauses.            *)

metricKeys ==
  { <<"i", "p", "m">>, <<"c", "t", "r">>, <<"s", "p", "e", "n", "d">>,
    <<"i", "m", "p", "r", "e", "s", "s", "i", "o", "n", "s">>,
    <<"c", "l", "i", "c", "k", "s">>, <<"c", "p", "m">>,
    <<"c", "o", "s", "t", "_", "p", "e", "r", "_", "c", "l", "i", "c", "k">>,
    <<"c", "o", "s", "t", "_", "p", "e", "r", "_", "i", "n", "s", "t", "a", "l", "l">>,
    <<"i", "n", "s", "t", "a", "l", "l", "s">> }

TagWord == <<"t", "a", "g">>

\* the classifier reading the header as written
ColDefRaw(h) ==
  IF h \in metricKeys THEN [name |-> h, type |-> "Metrics"]
  ELSE IF Includes(h, TagWord) THEN [name |-> h, type |-> "Tags"]
  ELSE [name |-> h, type |-> "Dimensions"]

\* one element of defs: const key = h.trim().toLowerCase(); ...
ColDef(h) ==
  LET key == ToLowerCase(Trim(h))
  IN  IF key \in metricKeys THEN [name |-> h, type |-> "Metrics"]
      ELSE IF Includes(key, TagWord) THEN [name |-> h, type |-> "Tags"]
      ELSE [name |-> h, type |-> "Dimensions"]

\* defs: one ColDef per header, in header order
Defs(headers) == [j \in 1..Len(headers) |-> ColDef(headers[j])]

\* a clause operand: a single string or an array of strings
StrValue(s) == [arr |-> FALSE, s |-> s, items |-> <<>>]
ArrValue(items) == [arr |-> TRUE, s |-> <<>>, items |-> items]

FilterItem(category, op, value, isNumeric) ==
  [category |-> category, operator |-> op, value |-> value,
   isNumeric |-> isNumeric]

NumericOperators == <<"equals", "greater than", "lesser than">>
TextOperators == <<"is", "is not", "contains", "does not contain">>
TagOperators == <<"is">>

\* Number(f.value): an array goes through its comma-joined string
ValueToNumber(value) ==
  IF ~value.arr THEN StringToNumber(value.s)
  ELSE IF Len(value.items) = 0 THEN Finite(0)
  ELSE IF Len(value.items) = 1 THEN StringToNumber(value.items[1])
  ELSE NaN

----------------------------------------------------------------------------
(* Home: the clause matcher and the filter set evaluator.                  *)

NumericMatch(val, cmp, op) ==
  CASE op = "equals" -> ~val.nan /\ ~cmp.nan /\ val.n = cmp.n
    [] op = "lesser than" -> ~val.nan /\ ~cmp.nan /\ val.n < cmp.n
    [] op = "greater than" -> ~val.nan /\ ~cmp.nan /\ val.n > cmp.n
    [] OTHER -> FALSE

ArrayMatch(s, vals, op) ==
  CASE op = "is" -> ArrIncludes(vals, s)
    [] op = "is not" -> ~ArrIncludes(vals, s)
    [] op = "contains" -> \E i \in 1..Len(vals) : Includes(s, vals[i])
    [] op = "does not contain" -> ~(\A i \in 1..Len(vals) : Includes(s, vals[i]))
    [] OTHER -> FALSE

TextMatch(s, t, op) ==
  CASE op = "contains" -> Includes(s, t)
    [] op = "does not contain" -> ~Includes(s, t)
    [] op = "is" -> s = t
    [] op = "is not" -> s # t
    [] OTHER -> FALSE

\* matchesFilter applied to the cell raw = row[f.category.name]
MatchesCell(raw, f) ==
  IF f.isNumeric
  THEN NumericMatch(JsNumber(raw), ValueToNumber(f.value), f.operator)
  ELSE LET s == ToLowerCase(JsString(raw))
       IN  IF f.value.arr
           THEN ArrayMatch(s, [i \in 1..Len(f.value.items) |->
                                 ToLowerCase(f.value.items[i])], f.operator)
           ELSE TextMatch(s, ToLowerCase(f.value.s), f.operator)

matchesFilter(row, f) == MatchesCell(Get(row, f.category.name), f)

\* a filter set evaluator that ignores the combinator
RowPassesEvery(row, filters, logicMode) ==
  \A i \in 1..Len(filters) : matchesFilter(row, filters[i])

\* logicMode === "AND" ? filters.every(...) : filters.some(...)
RowPasses(row, filters, logicMode) ==
  IF logicMode = "AND"
  THEN \A i \in 1..Len(filters) : matchesFilter(row, filters[i])
  ELSE \E i \in 1..Len(filters) : matchesFilter(row, filters[i])

\* a filter that returns the passing elements last to first
RECURSIVE FilterSeqBackwards(_, _, _)
FilterSeqBackwards(data, filters, logicMode) ==
  IF data = <<>> THEN <<>>
  ELSE LET rest == FilterSeqBackwards(Tail(data), filters, logicMode)
       IN  IF RowPasses(Head(data), filters, logicMode)
           THEN rest \o <<Head(data)>>
           ELSE rest

\* Array.prototype.filter: the elements that pass, in their order
RECURSIVE FilterSeq(_, _, _)
FilterSeq(data, filters, logicMode) ==
  IF data = <<>> THEN <<>>
  ELSE LET rest == FilterSeq(Tail(data), filters, logicMode)
       IN  IF RowPasses(Head(data), filters, logicMode)
           THEN <<Head(data)>> \o rest
           ELSE rest

\* a handler without the early return for an empty filter list
FilterResultAlwaysFilters(data, filters, logicMode) ==
  FilterSeq(data, filters, logicMode)

\* the value handleFiltersChange gives to setFilteredData
FilterResult(data, filters, logicMode) ==
  IF Len(filters) = 0 THEN data ELSE FilterSeq(data, filters, logicMode)

----------------------------------------------------------------------------
(* DataTable: the search, sort and paginate stages.                        *)

\* a search that also looks into the text "null" of an empty cell
SearchKeepsNullText(row, columns, term) ==
  \E j \in 1..Len(columns) :
     Includes(ToLowerCase(JsString(Get(row, columns[j]))), term)

\* const term = search.toLowerCase(); if (!term) return data; ...
SearchKeeps(row, columns, term) ==
  \E j \in 1..Len(columns) :
     LET cell == Get(row, columns[j])
     IN  ~IsNullish(cell) /\ Includes(ToLowerCase(JsString(cell)), term)

RECURSIVE SearchSeq(_, _, _)
SearchSeq(data, columns, term) ==
  IF data = <<>> THEN <<>>
  ELSE LET rest == SearchSeq(Tail(data), columns, term)
       IN  IF SearchKeeps(Head(data), columns, term)
           THEN <<Head(data)>> \o rest
           ELSE rest

\* the memo `filtered`
Filtered(data, searchText) ==
  LET term == ToLowerCase(searchText)
  IN  IF term = <<>> THEN data ELSE SearchSeq(data, Columns(data), term)

\* String.prototype.localeCompare: the collation puts white space before
\* punctuation, digits and letters, ignores case at the first level and puts
\* a lower-case letter before its upper-case form at the last
Collation ==
  <<" ", "_", "0", "1", "2", "3", "4", "5", "6", "7", "8", "9",
    "a", "b", "c", "d", "e", "f", "g", "h", "i", "j", "k", "l", "m",
    "n", "o", "p", "q", "r", "s", "t", "u", "v", "w", "x", "y", "z">>

CollationRank ==
  [c \in {Collation[r] : r \in 1..Len(Collation)} |->
     CHOOSE r \in 1..Len(Collation) : Collation[r] = c]

CharRank(c) == CollationRank[LowerChar(c)]

CaseRank(c) == IF LowerChar(c) = c THEN 0 ELSE 1

RECURSIVE CompareBy(_, _, _)
CompareBy(a, b, level) ==
  LET Rank(c) == IF level = 1 THEN CharRank(c) ELSE CaseRank(c)
  IN  IF a = <<>> /\ b = <<>> THEN 0
      ELSE IF a = <<>> THEN -1
      ELSE IF b = <<>> THEN 1
      ELSE IF Rank(Head(a)) < Rank(Head(b)) THEN -1
      ELSE IF Rank(Head(a)) > Rank(Head(b)) THEN 1
      ELSE CompareBy(Tail(a), Tail(b), level)

LocaleCompare(a, b) ==
  IF CompareBy(a, b, 1) # 0 THEN CompareBy(a, b, 1) ELSE CompareBy(a, b, 2)

NoSort == [key |-> <<>>, direction |-> "none"]

\* a comparator whose place for empty cells follows the direction
CompareCellsNullsTurn(aVal, bVal, direction) ==
  IF IsNullish(aVal) /\ IsNullish(bVal) THEN 0
  ELSE IF IsNullish(aVal) THEN (IF direction = "asc" THEN 1 ELSE -1)
  ELSE IF IsNullish(bVal) THEN (IF direction = "asc" THEN -1 ELSE 1)
  ELSE IF aVal.t = "num" /\ bVal.t = "num"
       THEN IF direction = "asc" THEN aVal.n - bVal.n ELSE bVal.n - aVal.n
  ELSE IF direction = "asc"
       THEN LocaleCompare(JsString(aVal), JsString(bVal))
       ELSE LocaleCompare(JsString(bVal), JsString(aVal))

\* the comparator given to sort, on the two cells aVal = a[key], bVal = b[key]
CompareCells(aVal, bVal, direction) ==
  IF IsNullish(aVal) /\ IsNullish(bVal) THEN 0
  ELSE IF IsNullish(aVal) THEN 1
  ELSE IF IsNullish(bVal) THEN -1
  ELSE IF aVal.t = "num" /\ bVal.t = "num"
       THEN IF direction = "asc" THEN aVal.n - bVal.n ELSE bVal.n - aVal.n
  ELSE IF direction = "asc"
       THEN LocaleCompare(JsString(aVal), JsString(bVal))
       ELSE LocaleCompare(JsString(bVal), JsString(aVal))

Comparator(a, b, config) ==
  CompareCells(Get(a, config.key), Get(b, config.key), config.direction)

\* Array.prototype.sort is stable: an element is moved left past exactly
\* the elements that compare greater than it
InsertRow(acc, x, config) ==
  LET le == {i \in 1..Len(acc) : Comparator(acc[i], x, config) <= 0}
      p == IF le = {} THEN 0 ELSE CHOOSE i \in le : \A j \in le : j <= i
  IN  SubSeq(acc, 1, p) \o <<x>> \o SubSeq(acc, p + 1, Len(acc))

RECURSIVE SortRows(_, _)
SortRows(seq, config) ==
  IF seq = <<>> THEN <<>>
  ELSE InsertRow(SortRows(SubSeq(seq, 1, Len(seq) - 1), config),
                 seq[Len(seq)], config)

\* Array.prototype.sort as V8 runs it on an array of fewer than 64 elements:
\* the run the array starts with is counted, a strictly descending run is
\* reversed, and every later element is put in place by a binary search.
\* RunLength is the length of the run, of which the first n elements are
\* already counted.
RECURSIVE RunLength(_, _, _, _)
RunLength(seq, n, descending, config) ==
  IF n >= Len(seq) THEN Len(seq)
  ELSE LET order == Comparator(seq[n + 1], seq[n], config)
       IN  IF (descending /\ order >= 0) \/ (~descending /\ order < 0) THEN n
           ELSE RunLength(seq, n + 1, descending, config)

Reverse(seq) == [i \in 1..Len(seq) |-> seq[Len(seq) + 1 - i]]

\* the number of elements of acc that stay left of x: the binary search
\* between left and right
RECURSIVE InsertionPoint(_, _, _, _, _)
InsertionPoint(acc, x, left, right, config) ==
  IF left >= right THEN left
  ELSE LET mid == left + ((right - left) \div 2)
       IN  IF Comparator(x, acc[mid + 1], config) < 0
           THEN InsertionPoint(acc, x, left, mid, config)
           ELSE InsertionPoint(acc, x, mid + 1, right, config)

RECURSIVE BinaryInsertAll(_, _, _)
BinaryInsertAll(acc, rest, config) ==
  IF rest = <<>> THEN acc
  ELSE LET x == Head(rest)
           p == InsertionPoint(acc, x, 0, Len(acc), config)
       IN  BinaryInsertAll(SubSeq(acc, 1, p) \o <<x>> \o SubSeq(acc, p + 1, Len(acc)),
                           Tail(rest), config)

RunSortRows(seq, config) ==
  IF Len(seq) < 2 THEN seq
  ELSE LET descending == Comparator(seq[2], seq[1], config) < 0
           run == RunLength(seq, 2, descending, config)
           first == SubSeq(seq, 1, run)
       IN  BinaryInsertAll(IF descending THEN Reverse(first) ELSE first,
                           SubSeq(seq, run + 1, Len(seq)), config)

\* what [...filtered].sort(comparator) can return: when the comparator is
\* not a consistent ordering of the rows the order is left to the engine,
\* and the straight insertion and the run-counting sort need not agree
SortOutcomes(filteredRows, config) ==
  IF config = NoSort THEN {filteredRows}
  ELSE {SortRows(filteredRows, config), RunSortRows(filteredRows, config)}

\* the memo `sorted`
Sorted(filteredRows, config) ==
  IF config = NoSort THEN filteredRows ELSE SortRows(filteredRows, config)

PageSizes == {5, 10, 25, 50, 100}

\* Math.max(Math.ceil(sorted.length / itemsPerPage), 1)
TotalPages(length, perPage) ==
  LET ceil == (length + perPage - 1) \div perPage
  IN  IF ceil > 1 THEN ceil ELSE 1

\* Array.prototype.slice(start, end) for 0 <= start <= end
Slice(seq, start, end) ==
  SubSeq(seq, start + 1, IF end < Len(seq) THEN end ELSE Len(seq))

\* a page that also takes the first row of the next page
PaginatedDataOneMore(sortedRows, page, perPage) ==
  LET start == (page - 1) * perPage
  IN  Slice(sortedRows, start, start + perPage + 1)

\* the memo `paginatedData`
PaginatedData(sortedRows, page, perPage) ==
  LET start == (page - 1) * perPage
  IN  Slice(sortedRows, start, start + perPage)

\* the number on the i-th page button, i counted from 0
PageNum(i, page, total) ==
  IF total <= 5 THEN i + 1
  ELSE IF page <= 3 THEN i + 1
  ELSE IF page >= total - 2 THEN total - 4 + i
  ELSE page - 2 + i

----------------------------------------------------------------------------
(* FilterBar: its own parse of the CSV and the pick-list of a column.      *)

\* Papa.parse without dynamicTyping: every cell is the raw text, keyed by the
\* header as written
ParseFilterBar(csvRows) ==
  [i \in 1..Len(csvRows) |->
     [h \in {CsvHeaders[j] : j \in 1..Len(CsvHeaders)} |->
        Str(csvRows[i][HeaderIndex(CsvHeaders, h)])]]

\* the default order of Array.prototype.sort: by UTF-16 code unit
CodeUnits ==
  <<" ", "0", "1", "2", "3", "4", "5", "6", "7", "8", "9",
    "A", "B", "N", "S", "T", "_",
    "a", "b", "c", "d", "e", "f", "g", "h", "i", "j", "k", "l", "m",
    "n", "o", "p", "q", "r", "s", "t", "u", "v", "w", "x", "y", "z">>

CodeUnitRank ==
  [c \in {CodeUnits[r] : r \in 1..Len(CodeUnits)} |->
     CHOOSE r \in 1..Len(CodeUnits) : CodeUnits[r] = c]

CodeUnit(c) == CodeUnitRank[c]

RECURSIVE CodeUnitLess(_, _)
CodeUnitLess(a, b) ==
  IF b = <<>> THEN FALSE
  ELSE IF a = <<>> THEN TRUE
  ELSE IF CodeUnit(Head(a)) # CodeUnit(Head(b))
       THEN CodeUnit(Head(a)) < CodeUnit(Head(b))
  ELSE CodeUnitLess(Tail(a), Tail(b))

RECURSIVE SortStrings(_)
SortStrings(set) ==
  IF set = {} THEN <<>>
  ELSE LET m == CHOOSE x \in set : \A y \in set \ {x} : CodeUnitLess(x, y)
       IN  <<m>> \o SortStrings(set \ {m})

\* the distinct strings in the order of their first occurrence, unsorted
RECURSIVE ValueOptionsUnsorted(_, _)
ValueOptionsUnsorted(fbRows, name) ==
  IF fbRows = <<>> THEN <<>>
  ELSE LET before == ValueOptionsUnsorted(SubSeq(fbRows, 1, Len(fbRows) - 1), name)
           v == Get(fbRows[Len(fbRows)], name)
       IN  IF IsNullish(v) \/ ArrIncludes(before, JsString(v)) THEN before
           ELSE Append(before, JsString(v))

\* Array.from(new Set(rows.map(r => r[name]).filter(v => v != null)
\*   .map(String))).sort()
ValueOptions(fbRows, name) ==
  SortStrings({JsString(Get(fbRows[i], name)) :
                 i \in {k \in 1..Len(fbRows) : ~IsNullish(Get(fbRows[k], name))}})

NoCol == [name |-> <<>>, type |-> "none"]

\* the memo availableOperators
AvailableOperators(col) ==
  IF col.type = "Metrics" THEN NumericOperators
  ELSE IF col.type = "Dimensions" THEN TextOperators
  ELSE TagOperators

CreativeName ==
  <<"c", "r", "e", "a", "t", "i", "v", "e", "_", "n", "a", "m", "e">>

----------------------------------------------------------------------------
(* The state.                                                              *)

VARIABLES
  \* Home
  tableData, filteredData, activeFilters, homeLogic, viewMode,
  \* FilterBar
  open, step, activeTab, pending, logic, cols, rows, selectedCol,
  operator, radioVal, multiVals, textVal, numVal, valueOptions,
  \* DataTable
  search, sortConfig, visibleColumns, currentPage, itemsPerPage,
  \* the argument and the result of a stage evaluated on its own
  stageIn, stageOut

homeVars == <<tableData, filteredData, activeFilters, homeLogic, viewMode>>
editorVars == <<operator, radioVal, multiVals, textVal, numVal, valueOptions>>
barVars ==
  <<open, step, activeTab, pending, logic, cols, rows, selectedCol, editorVars>>
tableVars == <<search, sortConfig, visibleColumns, currentPage, itemsPerPage>>
stageVars == <<stageIn, stageOut>>
vars == <<homeVars, barVars, tableVars, stageVars>>

\* the DataTable's state when it mounts
TableInit ==
  /\ search = <<>>
  /\ sortConfig = NoSort
  /\ visibleColumns = <<>>
  /\ currentPage = 1
  /\ itemsPerPage = 10

NoStage == [done |-> FALSE, result |-> FALSE]

\* Home and FilterBar after their mount effects have parsed the CSV
LoadedInit ==
  /\ tableData = ParseHome(CsvRows)
  /\ filteredData = ParseHome(CsvRows)
  /\ activeFilters = <<>>
  /\ homeLogic = "AND"
  /\ viewMode = "summary"
  /\ open = FALSE
  /\ logic = "AND"
  /\ cols = Defs(CsvHeaders)
  /\ rows = ParseFilterBar(CsvRows)
  /\ TableInit
  /\ stageIn = NoStage
  /\ stageOut = NoStage

\* the filter builder before any column was picked
EditorInit ==
  /\ step = 1
  /\ activeTab = "Tags"
  /\ selectedCol = NoCol
  /\ operator = ""
  /\ radioVal = <<>>
  /\ multiVals = <<>>
  /\ textVal = <<>>
  /\ numVal = <<>>
  /\ valueOptions = <<>>

----------------------------------------------------------------------------
(* FilterBar: the handlers of the filter builder.  The two search boxes    *)
(* (searchCol, searchVal) only narrow the lists that are shown and are     *)
(* empty when the lists are complete, so the handlers are enabled as with  *)
(* empty search boxes.                                                     *)

\* text the user types into the "Enter text" and "Enter value" inputs
TextInputs == { <<"a">>, <<"z", "z">> }
NumInputs == { <<"5">>, <<"0">> }

Tabs == {"Dimensions", "Tags", "Metrics"}

\* a step 2 effect that leaves the operator of the column edited before
StepTwoEffectKeepsOperator(col) ==
  /\ valueOptions' = ValueOptions(rows, col.name)
  /\ operator' = operator
  /\ radioVal' = <<>>
  /\ multiVals' = <<>>
  /\ textVal' = <<>>
  /\ numVal' = <<>>

\* the effect that runs when step 2 is entered or the column changes
StepTwoEffect(col) ==
  /\ valueOptions' = ValueOptions(rows, col.name)
  /\ operator' = AvailableOperators(col)[1]
  /\ radioVal' = <<>>
  /\ multiVals' = <<>>
  /\ textVal' = <<>>
  /\ numVal' = <<>>

\* the trigger button: setOpen((o) => !o)
ToggleOpen ==
  /\ open' = ~open
  /\ UNCHANGED <<step, activeTab, pending, logic, cols, rows, selectedCol,
                 editorVars, homeVars, tableVars, stageVars>>

\* the X button, the backdrop and a click outside the dropdown
CloseDropdown ==
  /\ open
  /\ open' = FALSE
  /\ UNCHANGED <<step, activeTab, pending, logic, cols, rows, selectedCol,
                 editorVars, homeVars, tableVars, stageVars>>

SetActiveTab(t) ==
  /\ open /\ step = 1
  /\ activeTab' = t
  /\ UNCHANGED <<open, step, pending, logic, cols, rows, selectedCol,
                 editorVars, homeVars, tableVars, stageVars>>

\* a click on a column of the active tab
PickColumn(c) ==
  /\ open /\ step = 1
  /\ c.type = activeTab
  /\ selectedCol' = c
  /\ step' = 2
  /\ StepTwoEffect(c)
  /\ UNCHANGED <<open, activeTab, pending, logic, cols, rows,
                 homeVars, tableVars, stageVars>>

InStepTwo == open /\ step = 2 /\ selectedCol # NoCol

\* a Back button that leaves the column selected
BackKeepsColumn ==
  /\ InStepTwo
  /\ step' = 1
  /\ UNCHANGED <<open, activeTab, pending, logic, cols, rows, selectedCol,
                 editorVars, homeVars, tableVars, stageVars>>

\* the Back button of step 2
Back ==
  /\ InStepTwo
  /\ step' = 1
  /\ selectedCol' = NoCol
  /\ UNCHANGED <<open, activeTab, pending, logic, cols, rows,
                 editorVars, homeVars, tableVars, stageVars>>

SetOperator(op) ==
  /\ InStepTwo
  /\ \E i \in 1..Len(AvailableOperators(selectedCol)) :
        AvailableOperators(selectedCol)[i] = op
  /\ operator' = op
  /\ UNCHANGED <<radioVal, multiVals, textVal, numVal, valueOptions,
                 open, step, activeTab, pending, logic, cols, rows,
                 selectedCol, homeVars, tableVars, stageVars>>

SetRadioVal(v) ==
  /\ InStepTwo /\ selectedCol.type = "Tags"
  /\ ArrIncludes(valueOptions, v)
  /\ radioVal' = v
  /\ UNCHANGED <<operator, multiVals, textVal, numVal, valueOptions,
                 open, step, activeTab, pending, logic, cols, rows,
                 selectedCol, homeVars, tableVars, stageVars>>

MultiShown ==
  InStepTwo /\ selectedCol.type = "Dimensions" /\ operator \in {"is", "is not"}

\* m.includes(v) ? m.filter((x) => x !== v) : [...m, v]
ToggleMultiVal(v) ==
  /\ MultiShown
  /\ ArrIncludes(valueOptions, v)
  /\ multiVals' = IF ArrIncludes(multiVals, v)
                  THEN SelectSeq(multiVals, LAMBDA x : x # v)
                  ELSE Append(multiVals, v)
  /\ UNCHANGED <<operator, radioVal, textVal, numVal, valueOptions,
                 open, step, activeTab, pending, logic, cols, rows,
                 selectedCol, homeVars, tableVars, stageVars>>

\* the "Select all" box: e.target.checked ? valueOptions : []
SelectAll ==
  /\ MultiShown
  /\ multiVals' = IF Len(multiVals) = Len(valueOptions)
                  THEN <<>> ELSE valueOptions
  /\ UNCHANGED <<operator, radioVal, textVal, numVal, valueOptions,
                 open, step, activeTab, pending, logic, cols, rows,
                 selectedCol, homeVars, tableVars, stageVars>>

SetTextVal(t) ==
  /\ InStepTwo /\ selectedCol.type = "Dimensions"
  /\ operator \notin {"is", "is not"}
  /\ textVal' = t
  /\ UNCHANGED <<operator, radioVal, multiVals, numVal, valueOptions,
                 open, step, activeTab, pending, logic, cols, rows,
                 selectedCol, homeVars, tableVars, stageVars>>

SetNumVal(n) ==
  /\ InStepTwo /\ selectedCol.type = "Metrics"
  /\ numVal' = n
  /\ UNCHANGED <<operator, radioVal, multiVals, textVal, valueOptions,
                 open, step, activeTab, pending, logic, cols, rows,
                 selectedCol, homeVars, tableVars, stageVars>>

\* an Apply button that looks at the text box only
ApplyDisabledByText ==
  IF selectedCol.type = "Metrics" THEN numVal = <<>>
  ELSE IF selectedCol.type = "Tags" THEN radioVal = <<>>
  ELSE textVal = <<>>

\* the `disabled` condition of the Apply button
ApplyDisabled ==
  IF selectedCol.type = "Metrics" THEN numVal = <<>>
  ELSE IF selectedCol.type = "Tags" THEN radioVal = <<>>
  ELSE IF operator \in {"is", "is not"} THEN Len(multiVals) = 0
  ELSE textVal = <<>>

\* the operand handleAddFilter stores in the clause
AddedValue ==
  IF selectedCol.type = "Metrics" THEN StrValue(numVal)
  ELSE IF selectedCol.type = "Tags" THEN StrValue(radioVal)
  ELSE IF operator \in {"is", "is not"} THEN ArrValue(multiVals)
  ELSE StrValue(textVal)

\* cols.find((c) => c.name.toLowerCase() === "creative_name")
CreativeCols ==
  {i \in 1..Len(cols) : ToLowerCase(cols[i].name) = CreativeName}

\* a mode flag that also counts a column whose name ends in "id"
isNumByName(col) ==
  \/ col.type = "Metrics"
  \/ Len(col.name) >= 2
     /\ ToLowerCase(SubSeq(col.name, Len(col.name) - 1, Len(col.name)))
          = <<"i", "d">>

\* const isNum = selectedCol.type === "Metrics"
isNum(col) == col.type = "Metrics"

HandleAddFilter ==
  /\ InStepTwo /\ ~ApplyDisabled
  /\ Len(pending) < MaxPending
  /\ pending' = Append(pending,
                  FilterItem(selectedCol, operator, AddedValue,
                             isNum(selectedCol)))
  /\ IF selectedCol.type = "Tags"
     THEN /\ activeTab' = "Dimensions"
          /\ IF CreativeCols # {}
             THEN LET creativeCol ==
                        cols[CHOOSE i \in CreativeCols :
                               \A j \in CreativeCols : i <= j]
                  IN  /\ selectedCol' = creativeCol
                      /\ step' = 2
                      /\ StepTwoEffect(creativeCol)
             ELSE /\ step' = 1
                  /\ selectedCol' = NoCol
                  /\ UNCHANGED editorVars
     ELSE /\ step' = 1
          /\ selectedCol' = NoCol
          /\ UNCHANGED <<activeTab, editorVars>>
  /\ UNCHANGED <<open, logic, cols, rows, homeVars, tableVars, stageVars>>

\* a trash button that filters the view at once
DeletePendingLive(i) ==
  /\ open
  /\ i \in 1..Len(pending)
  /\ pending' = [j \in 1..(Len(pending) - 1) |->
                   IF j < i THEN pending[j] ELSE pending[j + 1]]
  /\ filteredData' = FilterResult(tableData, pending', logic)
  /\ UNCHANGED <<open, step, activeTab, logic, cols, rows, selectedCol,
                 editorVars, tableData, activeFilters, homeLogic, viewMode,
                 tableVars, stageVars>>

\* the trash button of the i-th pending clause
DeletePending(i) ==
  /\ open
  /\ i \in 1..Len(pending)
  /\ pending' = [j \in 1..(Len(pending) - 1) |->
                   IF j < i THEN pending[j] ELSE pending[j + 1]]
  /\ UNCHANGED <<open, step, activeTab, logic, cols, rows, selectedCol,
                 editorVars, homeVars, tableVars, stageVars>>

\* the AND / OR buttons, shown when more than one clause is pending
SetLogic(L) ==
  /\ open
  /\ Len(pending) > 1
  /\ logic' = L
  /\ UNCHANGED <<open, step, activeTab, pending, cols, rows, selectedCol,
                 editorVars, homeVars, tableVars, stageVars>>

----------------------------------------------------------------------------
(* Home and DataTable.                                                     *)

\* the render-time initialisation of the visible columns
RenderVisible(visible, data, isMobile) ==
  IF Len(visible) = 0 /\ Len(Columns(data)) > 0
  THEN IF isMobile THEN SubSeq(Columns(data), 1, 3) ELSE Columns(data)
  ELSE visible

\* applyFilters: onFiltersChange(pending, logic); setOpen(false), with
\* handleFiltersChange of Home and the render of the table that follows
ApplyFilters ==
  /\ open
  /\ activeFilters' = pending
  /\ homeLogic' = logic
  /\ filteredData' = FilterResult(tableData, pending, logic)
  /\ open' = FALSE
  /\ IF viewMode = "table"
     THEN \E isMobile \in BOOLEAN :
            visibleColumns' =
              RenderVisible(visibleColumns, filteredData', isMobile)
     ELSE UNCHANGED visibleColumns
  /\ UNCHANGED <<tableData, viewMode, step, activeTab, pending, logic, cols,
                 rows, selectedCol, editorVars, search, sortConfig,
                 currentPage, itemsPerPage, stageVars>>

\* the two view buttons; the table is mounted only in table mode and
\* starts from its initial state on every mount
SetViewMode(m) ==
  /\ m # viewMode
  /\ viewMode' = m
  /\ search' = <<>>
  /\ sortConfig' = NoSort
  /\ currentPage' = 1
  /\ itemsPerPage' = 10
  /\ IF m = "table"
     THEN \E isMobile \in BOOLEAN :
            visibleColumns' = RenderVisible(<<>>, filteredData, isMobile)
     ELSE visibleColumns' = <<>>
  /\ UNCHANGED <<tableData, filteredData, activeFilters, homeLogic,
                 barVars, stageVars>>

Mounted == viewMode = "table"

sorted == Sorted(Filtered(filteredData, search), sortConfig)

totalPages == TotalPages(Len(sorted), itemsPerPage)

\* text typed into the search box of the table
SearchInputs == { <<"a">>, <<" ">>, <<"B">>, <<"1", "0">> }

\* onChange of the search box
SetSearch(text) ==
  /\ Mounted
  /\ search' = text
  /\ currentPage' = 1
  /\ UNCHANGED <<sortConfig, visibleColumns, itemsPerPage,
                 homeVars, barVars, stageVars>>

\* the X in the search box and the "Clear search" link
clearSearch ==
  /\ Mounted
  /\ search # <<>>
  /\ search' = <<>>
  /\ currentPage' = 1
  /\ UNCHANGED <<sortConfig, visibleColumns, itemsPerPage,
                 homeVars, barVars, stageVars>>

\* a sort spec that a third request on the same column takes away again
NextSortConfigCycle(config, key) ==
  IF config # NoSort /\ config.key = key
  THEN IF config.direction = "asc" THEN [key |-> key, direction |-> "desc"]
       ELSE NoSort
  ELSE [key |-> key, direction |-> "asc"]

\* the sort spec requestSort(key) sets
NextSortConfig(config, key) ==
  IF config # NoSort /\ config.key = key /\ config.direction = "asc"
  THEN [key |-> key, direction |-> "desc"]
  ELSE [key |-> key, direction |-> "asc"]

\* a click on a header whose sort runs on the array itself, not on a copy:
\* without a search term that array is the data prop, and without active
\* filters the data prop is the array of the loaded rows
requestSortInPlace(key) ==
  /\ Mounted
  /\ ArrIncludes(Columns(filteredData), key)
  /\ ArrIncludes(visibleColumns, key)
  /\ sortConfig' = NextSortConfig(sortConfig, key)
  /\ currentPage' = 1
  /\ filteredData' = IF search = <<>> THEN Sorted(filteredData, sortConfig')
                      ELSE filteredData
  /\ tableData' = IF search = <<>> /\ activeFilters = <<>>
                   THEN Sorted(tableData, sortConfig') ELSE tableData
  /\ UNCHANGED <<search, visibleColumns, itemsPerPage, activeFilters,
                 homeLogic, viewMode, barVars, stageVars>>

\* a click on the header of a shown column
requestSort(key) ==
  /\ Mounted
  /\ ArrIncludes(Columns(filteredData), key)
  /\ ArrIncludes(visibleColumns, key)
  /\ sortConfig' = NextSortConfig(sortConfig, key)
  /\ currentPage' = 1
  /\ UNCHANGED <<search, visibleColumns, itemsPerPage,
                 homeVars, barVars, stageVars>>

\* the rows-per-page menu
SetItemsPerPage(size) ==
  /\ Mounted
  /\ size \in PageSizes
  /\ itemsPerPage' = size
  /\ currentPage' = 1
  /\ UNCHANGED <<search, sortConfig, visibleColumns,
                 homeVars, barVars, stageVars>>

GoToPage(p) ==
  /\ currentPage' = p
  /\ UNCHANGED <<search, sortConfig, visibleColumns, itemsPerPage,
                 homeVars, barVars, stageVars>>

FirstPage == Mounted /\ currentPage # 1 /\ GoToPage(1)

PrevPage ==
  /\ Mounted /\ currentPage # 1
  /\ GoToPage(IF currentPage - 1 > 1 THEN currentPage - 1 ELSE 1)

\* the page buttons read totalPages of the current render
NumberedPage(i, total) ==
  /\ Mounted
  /\ i \in 0..((IF total < 5 THEN total ELSE 5) - 1)
  /\ GoToPage(PageNum(i, currentPage, total))

NextPage(total) ==
  /\ Mounted /\ currentPage # total
  /\ GoToPage(IF currentPage + 1 < total THEN currentPage + 1 ELSE total)

LastPage(total) == Mounted /\ currentPage # total /\ GoToPage(total)

----------------------------------------------------------------------------
(* The filter life cycle: builder, pending list, commit.                   *)
(*                                                                         *)
(* The initial states are states of the builder reached by picking a       *)
(* column and entering a value: the builder is either parked (a column was *)
(* picked and left again with Back) or ready (a value is entered and the   *)
(* Apply button is enabled), and the pending list holds the clauses added  *)
(* before.                                                                 *)

Editor(c, op, r, m, t, n) ==
  [col |-> c, operator |-> op, radioVal |-> r, multiVals |-> m,
   textVal |-> t, numVal |-> n]

ColsOfType(type) ==
  {c \in {ColDef(CsvHeaders[j]) : j \in 1..Len(CsvHeaders)} : c.type = type}

OptionsOf(c) ==
  LET opts == ValueOptions(ParseFilterBar(CsvRows), c.name)
  IN  {opts[i] : i \in 1..Len(opts)} \ {<<>>}

\* builders in step 2 with a value entered
ReadyEditors ==
  {Editor(c, "is", v, <<>>, <<>>, <<>>) :
     c \in ColsOfType("Tags"), v \in UNION {OptionsOf(c) : c \in ColsOfType("Tags")}}
  \cup
  {Editor(c, op, <<>>, <<v>>, <<>>, <<>>) :
     c \in ColsOfType("Dimensions"), op \in {"is", "is not"},
     v \in UNION {OptionsOf(c) : c \in ColsOfType("Dimensions")}}
  \cup
  {Editor(c, op, <<>>, <<>>, t, <<>>) :
     c \in ColsOfType("Dimensions"), op \in {"contains", "does not contain"},
     t \in TextInputs}
  \cup
  {Editor(c, op, <<>>, <<>>, <<>>, n) :
     c \in ColsOfType("Metrics"),
     op \in {"equals", "greater than", "lesser than"}, n \in NumInputs}

\* the clause a ready builder adds
ClauseOf(e) ==
  FilterItem(e.col, e.operator,
             IF e.col.type = "Metrics" THEN StrValue(e.numVal)
             ELSE IF e.col.type = "Tags" THEN StrValue(e.radioVal)
             ELSE IF e.operator \in {"is", "is not"} THEN ArrValue(e.multiVals)
             ELSE StrValue(e.textVal),
             isNum(e.col))

ReadyInit(e) ==
  /\ step = 2
  /\ activeTab = e.col.type
  /\ selectedCol = e.col
  /\ operator = e.operator
  /\ radioVal = e.radioVal
  /\ multiVals = e.multiVals
  /\ textVal = e.textVal
  /\ numVal = e.numVal
  /\ valueOptions = ValueOptions(ParseFilterBar(CsvRows), e.col.name)

\* the creative_name column was picked and left with Back
ParkedInit ==
  /\ step = 1
  /\ activeTab = "Dimensions"
  /\ selectedCol = NoCol
  /\ operator = "is"
  /\ radioVal = <<>>
  /\ multiVals = <<>>
  /\ textVal = <<>>
  /\ numVal = <<>>
  /\ valueOptions = ValueOptions(ParseFilterBar(CsvRows), CreativeName)

Init ==
  /\ LoadedInit
  /\ \/ pending = <<>> /\ EditorInit
     \/ /\ pending \in {<<>>} \cup {<<ClauseOf(e)>> : e \in ReadyEditors}
        /\ \/ ParkedInit
           \/ \E e \in ReadyEditors : ReadyInit(e)

Next ==
  \/ ToggleOpen
  \/ CloseDropdown
  \/ \E t \in Tabs : SetActiveTab(t)
  \/ \E i \in 1..Len(cols) : PickColumn(cols[i])
  \/ Back
  \/ HandleAddFilter
  \/ \E i \in 1..MaxPending : DeletePending(i)
  \/ \E L \in {"AND", "OR"} : SetLogic(L)
  \/ ApplyFilters

Spec == Init /\ [][Next]_vars

----------------------------------------------------------------------------
(* The table view: Home with the DataTable mounted, and the commits of the *)
(* filter bar that change the rows handed to the table.                    *)

TableClauses ==
  {ClauseOf(e) : e \in {r \in ReadyEditors :
     \/ r.col.type = "Tags" /\ r.radioVal = <<"a">>
     \/ r.operator = "contains" /\ r.textVal = <<"z", "z">>
     \/ r.operator = "greater than" /\ r.numVal = <<"5">>
     \/ r.operator = "is not" /\ r.multiVals = << <<"a", "b">> >>}}

InitTable ==
  /\ LoadedInit
  /\ ParkedInit
  /\ \/ pending = <<>>
     \/ \E c \in TableClauses : pending = <<c>>
     \/ \E c, d \in TableClauses :
          c.category.type = "Tags" /\ d.category.type = "Metrics"
          /\ pending = <<c, d>>

NextTable ==
  \/ ToggleOpen
  \/ \E i \in 1..MaxPending : DeletePending(i)
  \/ \E L \in {"AND", "OR"} : SetLogic(L)
  \/ ApplyFilters
  \/ \E m \in {"summary", "table"} : SetViewMode(m)
  \/ \E text \in SearchInputs : SetSearch(text)
  \/ clearSearch
  \/ \E j \in 1..Len(Columns(filteredData)) :
        requestSort(Columns(filteredData)[j])
  \/ \E size \in PageSizes : SetItemsPerPage(size)
  \/ FirstPage
  \/ PrevPage
  \/ \E total \in {totalPages} : \E i \in 0..4 : NumberedPage(i, total)
  \/ \E total \in {totalPages} : NextPage(total)
  \/ \E total \in {totalPages} : LastPage(total)

SpecTable == InitTable /\ [][NextTable]_vars

----------------------------------------------------------------------------
(* The stages evaluated on their own: the argument is drawn in the initial *)
(* state and one step applies the stage to it.                             *)

StageIdle ==
  /\ tableData = <<>> /\ filteredData = <<>> /\ activeFilters = <<>>
  /\ homeLogic = "AND" /\ viewMode = "summary"
  /\ open = FALSE /\ logic = "AND" /\ pending = <<>>
  /\ cols = <<>> /\ rows = <<>>
  /\ EditorInit
  /\ TableInit

RECURSIVE SeqsUpTo(_, _)
SeqsUpTo(set, n) ==
  IF n = 0 THEN {<<>>}
  ELSE LET shorter == SeqsUpTo(set, n - 1)
       IN  shorter \cup {Append(q, x) : q \in shorter, x \in set}

\* ---- the clause matcher (Home.tsx, matchesFilter)

MatchChars == {"a", "B", " ", "1"}

MatchStrings == SeqsUpTo(MatchChars, MaxStrLen)

\* a cell of tableData is a number, a trimmed text or null; a row that has
\* no such key gives undefined
MatchCells ==
  {Null, Undef} \cup {Num(n) : n \in 0..MaxNum}
  \cup {Str(t) : t \in {u \in MatchStrings : Trim(u) = u}}

MatchItems == { <<"a">>, <<"B">>, <<"1">> }

MatchValues ==
  {StrValue(t) : t \in MatchStrings}
  \cup {ArrValue(m) : m \in SeqsUpTo(MatchItems, MaxItems)}

MatchOperators ==
  {"equals", "lesser than", "greater than",
   "is", "is not", "contains", "does not contain"}

MatchColumn == [name |-> <<"s", "p", "e", "n", "d">>, type |-> "Metrics"]

InitMatch ==
  /\ StageIdle
  /\ stageIn \in [raw : MatchCells,
                  f : {FilterItem(MatchColumn, op, v, num) :
                         op \in MatchOperators, v \in MatchValues,
                         num \in BOOLEAN}]
  /\ stageOut = [done |-> FALSE, result |-> FALSE]

EvalMatch ==
  /\ ~stageOut.done
  /\ stageOut' = [done |-> TRUE, result |-> MatchesCell(stageIn.raw, stageIn.f)]
  /\ UNCHANGED <<stageIn, homeVars, barVars, tableVars>>

SpecMatch == InitMatch /\ [][EvalMatch]_vars

\* ---- the search stage (DataTable.tsx, filtered)

SearchRow(id, tag, name, spend) ==
  [k \in {IdKey} \cup {TrimmedHeaders[j] : j \in 1..Len(TrimmedHeaders)} |->
     IF k = IdKey THEN Num(id)
     ELSE <<tag, name, spend>>[HeaderIndex(TrimmedHeaders, k)]]

SearchTags == {Null, Str(<<"a", "n">>)}
SearchNames == {Null, Str(<<"B", " ", "a">>)}
SearchSpends == {Null, Num(10), Str(<<>>)}

\* the records keep the id of their place in the file
SearchData ==
  UNION {[1..n -> SearchTags \X SearchNames \X SearchSpends] : n \in 0..MaxSeqLen}

SearchRowsOf(d) ==
  [i \in 1..Len(d) |-> SearchRow(i - 1, d[i][1], d[i][2], d[i][3])]

SearchTexts ==
  { <<>>, <<" ">>, <<"a">>, <<"A">>, <<"a", " ">>, <<"b", " ", "a">>,
    <<"n">>, <<"1">>, <<"0">> }

InitSearch ==
  /\ StageIdle
  /\ \E d \in SearchData, text \in SearchTexts :
        stageIn = [data |-> SearchRowsOf(d), search |-> text]
  /\ stageOut = [done |-> FALSE, result |-> <<>>]

EvalSearch ==
  /\ ~stageOut.done
  /\ stageOut' = [done |-> TRUE,
                  result |-> Filtered(stageIn.data, stageIn.search)]
  /\ UNCHANGED <<stageIn, homeVars, barVars, tableVars>>

SpecSearch == InitSearch /\ [][EvalSearch]_vars

\* ---- the sort stage (DataTable.tsx, sorted)

SortKey == <<"s", "p", "e", "n", "d">>

SortCells ==
  {Null, Undef, Num(2), Num(5), Num(10), Num(20),
   Str(<<"1", "x">>), Str(<<"a", "b">>), Str(<<"B">>)}

\* a row shorter than the header row has no key for the column
SortRow(id, cell) ==
  IF cell = Undef THEN [k \in {IdKey} |-> Num(id)]
  ELSE [k \in {IdKey, SortKey} |-> IF k = IdKey THEN Num(id) ELSE cell]

\* the longest record sequence handed to the sort stage
MaxSortRows == 4

SortData == UNION {[1..n -> SortCells] : n \in 0..MaxSortRows}

InitSort ==
  /\ StageIdle
  /\ \E d \in SortData, dir \in {"asc", "desc"} :
        stageIn = [data |-> [i \in 1..Len(d) |-> SortRow(i - 1, d[i])],
                   config |-> [key |-> SortKey, direction |-> dir]]
  /\ stageOut = [done |-> FALSE, result |-> <<>>]

EvalSort ==
  /\ ~stageOut.done
  /\ \E result \in SortOutcomes(stageIn.data, stageIn.config) :
        stageOut' = [done |-> TRUE, result |-> result]
  /\ UNCHANGED <<stageIn, homeVars, barVars, tableVars>>

SpecSort == InitSort /\ [][EvalSort]_vars

\* ---- the paginate stage (DataTable.tsx, totalPages and paginatedData)

RECURSIVE ConcatPages(_, _, _)
ConcatPages(sortedRows, perPage, lastPage) ==
  IF lastPage = 0 THEN <<>>
  ELSE ConcatPages(sortedRows, perPage, lastPage - 1)
       \o PaginatedData(sortedRows, lastPage, perPage)

InitPage ==
  /\ StageIdle
  /\ \E n \in 0..MaxPageRows, size \in PageSizes :
        stageIn = [data |-> [i \in 1..n |-> Num(i - 1)], perPage |-> size]
  /\ stageOut = [done |-> FALSE, result |-> <<>>]

\* every page from 1 to totalPages, one after the other
EvalPages ==
  /\ ~stageOut.done
  /\ stageOut' =
       [done |-> TRUE,
        result |-> ConcatPages(stageIn.data, stageIn.perPage,
                               TotalPages(Len(stageIn.data), stageIn.perPage))]
  /\ UNCHANGED <<stageIn, homeVars, barVars, tableVars>>

SpecPage == InitPage /\ [][EvalPages]_vars

----------------------------------------------------------------------------
(* DataTable: the column menu and the CSV export.                          *)

\* a toggle that hides a shown column even when it is the last one shown
ToggledColumnsHidesLast(visible, col) ==
  IF ArrIncludes(visible, col)
  THEN SelectSeq(visible, LAMBDA c : c # col)
  ELSE Append(visible, col)

\* toggleColumn: a shown column is hidden unless it is the last one shown, a
\* hidden column is appended to the shown ones
ToggledColumns(visible, col) ==
  IF ArrIncludes(visible, col)
  THEN IF Len(visible) > 1 THEN SelectSeq(visible, LAMBDA c : c # col)
       ELSE visible
  ELSE Append(visible, col)

\* a click on an entry of the "Toggle Columns" menu
toggleColumn(col) ==
  /\ Mounted
  /\ ArrIncludes(Columns(filteredData), col)
  /\ visibleColumns' = ToggledColumns(visibleColumns, col)
  /\ UNCHANGED <<search, sortConfig, currentPage, itemsPerPage,
                 homeVars, barVars, stageVars>>

\* the classes of window.innerWidth the table distinguishes
Widths == {"mobile", "tablet", "desktop"}

\* getResponsiveVisibleColumns
ResponsiveVisibleColumns(visible, width) ==
  CASE width = "mobile" -> SubSeq(visible, 1, IF Len(visible) < 2 THEN Len(visible) ELSE 2)
    [] width = "tablet" -> SubSeq(visible, 1, IF Len(visible) < 4 THEN Len(visible) ELSE 4)
    [] OTHER -> visible

\* the columns of the table header, left to right
HeaderColumns(columns, visible, width) ==
  SelectSeq(columns,
            LAMBDA c : ArrIncludes(ResponsiveVisibleColumns(visible, width), c))

\* String.prototype.toUpperCase on one character
UpperChar(c) ==
  CASE c = "a" -> "A"
    [] c = "c" -> "C"
    [] c = "i" -> "I"
    [] c = "n" -> "N"
    [] c = "s" -> "S"
    [] c = "t" -> "T"
    [] OTHER -> c

\* formatColumnName: "_" becomes a space and the first character of every
\* word is upper-cased
formatColumnName(col) ==
  LET spaced == [i \in 1..Len(col) |-> IF col[i] = "_" THEN " " ELSE col[i]]
  IN  [i \in 1..Len(spaced) |->
         IF spaced[i] # " " /\ (i = 1 \/ spaced[i - 1] = " ")
         THEN UpperChar(spaced[i]) ELSE spaced[i]]

Quote == "\""

RECURSIVE DoubleQuotes(_)
\* replace(/"/g, '""')
DoubleQuotes(s) ==
  IF s = <<>> THEN <<>>
  ELSE (IF Head(s) = Quote THEN <<Quote, Quote>> ELSE <<Head(s)>>)
       \o DoubleQuotes(Tail(s))

\* one field of the export: empty for null and undefined, else the quoted
\* string form
ExportCell(value) ==
  IF ~IsNullish(value)
  THEN <<Quote>> \o DoubleQuotes(JsString(value)) \o <<Quote>>
  ELSE <<>>

\* the content of the exported file: the header line and one line per row,
\* each a sequence of fields (joined with commas in the file)
CsvContent(data, visible) ==
  [headers |-> [j \in 1..Len(visible) |-> formatColumnName(visible[j])],
   lines |-> [i \in 1..Len(data) |->
                [j \in 1..Len(visible) |-> ExportCell(Get(data[i], visible[j]))]]]

\* exportToCSV: the Export button; stageOut keeps the first file downloaded
exportToCSV ==
  /\ Mounted
  /\ ~stageOut.done
  /\ stageOut' = [done |-> TRUE, result |-> CsvContent(sorted, visibleColumns)]
  /\ UNCHANGED <<stageIn, tableVars, homeVars, barVars>>

\* the parsed rows of the CSV file
LoadedRows == ParseHome(CsvRows)

\* the clauses committed before the export: none, or one on the tag column
ExportFilters ==
  {<<>>} \cup {<<c>> : c \in {d \in TableClauses : d.category.type = "Tags"}}

ExportSorts == {NoSort, [key |-> TrimmedHeaders[1], direction |-> "desc"]}

\* the table is shown with all rows or the rows of a committed filter,
\* unsorted or sorted, on the first page of 10 rows or the second of 5
InitExport ==
  /\ tableData = LoadedRows
  /\ activeFilters \in ExportFilters
  /\ pending = activeFilters
  /\ homeLogic = "AND"
  /\ logic = "AND"
  /\ filteredData = FilterResult(tableData, activeFilters, homeLogic)
  /\ viewMode = "table"
  /\ open = FALSE
  /\ cols = Defs(CsvHeaders)
  /\ rows = ParseFilterBar(CsvRows)
  /\ ParkedInit
  /\ search = <<>>
  /\ sortConfig \in ExportSorts
  /\ \E isMobile \in BOOLEAN :
        visibleColumns = RenderVisible(<<>>, filteredData, isMobile)
  /\ \/ itemsPerPage = 10 /\ currentPage = 1
     \/ itemsPerPage = 5 /\ currentPage = 2 /\ Len(filteredData) > 5
  /\ stageIn = NoStage
  /\ stageOut = NoStage

NextExport ==
  \/ \E j \in 1..Len(Columns(filteredData)) :
        toggleColumn(Columns(filteredData)[j])
  \/ exportToCSV

SpecExport == InitExport /\ [][NextExport]_vars

----------------------------------------------------------------------------
(* The column classifier evaluated on its own.                             *)

\* the longest header row drawn
MaxHeaders == 2

\* header names as a CSV file may spell them
ClassifyHeaders ==
  { <<"i", "n", "s", "t", "a", "l", "l", "_", "t", "a", "g">>,
    <<" ", "S", "p", "e", "n", "d", " ">>,
    <<"s", "p", "e", "n", "d">>,
    <<"s", "t", "a", "g", "e">>,
    <<"c", "r", "e", "a", "t", "i", "v", "e", "_", "n", "a", "m", "e">>,
    <<"T", "a", "g">>,
    <<"i", "d">> }

InitClassify ==
  /\ StageIdle
  /\ \E hs \in SeqsUpTo(ClassifyHeaders, MaxHeaders) :
        stageIn = [headers |-> hs]
  /\ stageOut = NoStage

EvalClassify ==
  /\ ~stageOut.done
  /\ stageOut' = [done |-> TRUE, result |-> Defs(stageIn.headers)]
  /\ UNCHANGED <<stageIn, homeVars, barVars, tableVars>>

SpecClassify == InitClassify /\ [][EvalClassify]_vars

----------------------------------------------------------------------------
(* The filter builder from its first render: every handler of the editor,  *)
(* and no commit.  The CSV file read here has a column whose name ends in  *)
(* "id" and whose cells are all numbers.                                   *)

BuilderHeaders ==
  << <<"t", "a", "g">>,
     <<"c", "r", "e", "a", "t", "i", "v", "e", "_", "n", "a", "m", "e">>,
     <<"s", "p", "e", "n", "d">>,
     <<"a", "d", "_", "i", "d">> >>

BuilderCsvRows ==
  << << <<"a">>, <<"a", "b">>, <<"5">>, <<"7">> >>,
     << <<"b">>, <<"a", "b">>, <<>>, <<"7">> >> >>

\* a file without a creative_name column
PlainHeaders == << <<"t", "a", "g">>, <<"s", "p", "e", "n", "d">> >>

PlainCsvRows == << << <<"a">>, <<"5">> >>, << <<"b">>, <<>> >> >>

BuilderFiles ==
  { [headers |-> BuilderHeaders, csvRows |-> BuilderCsvRows],
    [headers |-> PlainHeaders, csvRows |-> PlainCsvRows] }

\* FilterBar's parse of a file with the given header row
ParseFilterBarWith(headers, csvRows) ==
  [i \in 1..Len(csvRows) |->
     [h \in {headers[j] : j \in 1..Len(headers)} |->
        Str(csvRows[i][HeaderIndex(headers, h)])]]

\* Home's parse of a file with the given header row
ParseHomeWith(headers, csvRows) ==
  LET trimmed == [j \in 1..Len(headers) |-> Trim(headers[j])]
  IN  [i \in 1..Len(csvRows) |->
         [k \in {IdKey} \cup {trimmed[j] : j \in 1..Len(trimmed)} |->
            IF k = IdKey THEN Num(i - 1)
            ELSE Cleaned(DynamicTyping(csvRows[i][HeaderIndex(trimmed, k)]))]]

InitBuilder ==
  /\ \E file \in BuilderFiles :
       /\ tableData = ParseHomeWith(file.headers, file.csvRows)
       /\ cols = Defs(file.headers)
       /\ rows = ParseFilterBarWith(file.headers, file.csvRows)
  /\ filteredData = tableData
  /\ activeFilters = <<>>
  /\ homeLogic = "AND"
  /\ viewMode = "summary"
  /\ open = FALSE
  /\ logic = "AND"
  /\ pending = <<>>
  /\ EditorInit
  /\ TableInit
  /\ stageIn = NoStage
  /\ stageOut = NoStage

NextBuilder ==
  \/ ToggleOpen
  \/ CloseDropdown
  \/ \E t \in Tabs : SetActiveTab(t)
  \/ \E i \in 1..Len(cols) : PickColumn(cols[i])
  \/ Back
  \/ \E i \in 1..Len(AvailableOperators(selectedCol)) :
        SetOperator(AvailableOperators(selectedCol)[i])
  \/ \E i \in 1..Len(valueOptions) : SetRadioVal(valueOptions[i])
  \/ \E i \in 1..Len(valueOptions) : ToggleMultiVal(valueOptions[i])
  \/ SelectAll
  \/ \E t \in TextInputs \cup {<<>>} : SetTextVal(t)
  \/ \E n \in NumInputs \cup {<<>>} : SetNumVal(n)
  \/ HandleAddFilter
  \/ \E i \in 1..MaxPending : DeletePending(i)
  \/ \E L \in {"AND", "OR"} : SetLogic(L)

SpecBuilder == InitBuilder /\ [][NextBuilder]_vars

----------------------------------------------------------------------------
(* ChartView: the rows of the chart and the totals shown above it.         *)
(* Numbers are natural numbers or NaN; the quotients are computed exactly  *)
(* and rounded to two decimals as toFixed(2) prints them.                  *)

\* the truthiness of a cell: 0, NaN, "", null and undefined are falsy
Truthy(v) ==
  CASE v.t = "num" -> v.n # 0
    [] v.t = "str" -> v.s # <<>>
    [] OTHER -> FALSE

\* x || 0 for a number x
OrZero(x) == IF x.nan \/ x.n = 0 THEN Finite(0) ELSE x

\* a chart value read without the "|| 0" fallback
MetricValueUnguarded(row, key) == JsNumber(Get(row, key))

\* Number(row[key]) || 0
MetricValue(row, key) == OrZero(JsNumber(Get(row, key)))

\* a + b
Plus(a, b) == IF a.nan \/ b.nan THEN NaN ELSE Finite(a.n + b.n)

TwoDigits(n) == <<Digits[(n \div 10) + 1], Digits[(n % 10) + 1]>>

\* ((a / b) * 100).toFixed(2)
PercentFixed(a, b) ==
  IF a.nan \/ b.nan \/ (a.n = 0 /\ b.n = 0) THEN <<"N", "a", "N">>
  ELSE IF b.n = 0 THEN <<"I", "n", "f", "i", "n", "i", "t", "y">>
  ELSE LET hundredths == (2 * a.n * 10000 + b.n) \div (2 * b.n)
       IN  NatToStr(hundredths \div 100) \o <<".">>
             \o TwoDigits(hundredths % 100)

\* a rate printed without the test of its denominator
RateUnguarded(guard, a, b) == PercentFixed(a, b)

\* guard ? ((a / b) * 100).toFixed(2) : "0"
Rate(guard, a, b) == IF guard THEN PercentFixed(a, b) ELSE <<"0">>

SpendKey == <<"s", "p", "e", "n", "d">>
ImpressionsKey == <<"i", "m", "p", "r", "e", "s", "s", "i", "o", "n", "s">>
ClicksKey == <<"c", "l", "i", "c", "k", "s">>
InstallsKey == <<"i", "n", "s", "t", "a", "l", "l", "s">>
CampaignKey == <<"c", "a", "m", "p", "a", "i", "g", "n">>

\* String(row.creative_name || row.campaign || "")
ChartName(row) ==
  IF Truthy(Get(row, CreativeName)) THEN JsString(Get(row, CreativeName))
  ELSE IF Truthy(Get(row, CampaignKey)) THEN JsString(Get(row, CampaignKey))
  ELSE <<>>

\* one element of chartData
ChartItem(row) ==
  [name |-> ChartName(row),
   spends |-> MetricValue(row, SpendKey),
   impressions |-> MetricValue(row, ImpressionsKey),
   clicks |-> MetricValue(row, ClicksKey),
   installs |-> MetricValue(row, InstallsKey),
   ctr |-> Rate(Truthy(Get(row, ImpressionsKey)),
                JsNumber(Get(row, ClicksKey)),
                JsNumber(Get(row, ImpressionsKey))),
   cvr |-> Rate(Truthy(Get(row, ClicksKey)),
                JsNumber(Get(row, InstallsKey)),
                JsNumber(Get(row, ClicksKey)))]

ChartData(data) == [i \in 1..Len(data) |-> ChartItem(data[i])]

ZeroTotals ==
  [spends |-> Finite(0), impressions |-> Finite(0), clicks |-> Finite(0),
   installs |-> Finite(0)]

\* chartData.reduce(..., { spends: 0, impressions: 0, clicks: 0, installs: 0 })
RECURSIVE Totals(_)
Totals(items) ==
  IF items = <<>> THEN ZeroTotals
  ELSE LET acc == Totals(SubSeq(items, 1, Len(items) - 1))
           item == items[Len(items)]
       IN  [spends |-> Plus(acc.spends, item.spends),
            impressions |-> Plus(acc.impressions, item.impressions),
            clicks |-> Plus(acc.clicks, item.clicks),
            installs |-> Plus(acc.installs, item.installs)]

\* the memo metrics: { totals, ctr, cvr }
Metrics(data) ==
  LET totals == Totals(ChartData(data))
  IN  [totals |-> totals,
       ctr |-> Rate(~totals.impressions.nan /\ totals.impressions.n # 0,
                    totals.clicks, totals.impressions),
       cvr |-> Rate(~totals.clicks.nan /\ totals.clicks.n # 0,
                    totals.installs, totals.clicks)]

\* the longest record sequence handed to the chart
MaxChartRows == 3

\* a row of the chart's input with the given cells; Undef leaves the key out
ChartRow(spend, impressions, clicks, installs) ==
  LET cells == (SpendKey :> spend) @@ (ImpressionsKey :> impressions)
                 @@ (ClicksKey :> clicks) @@ (InstallsKey :> installs)
                 @@ (CreativeName :> Str(<<"a">>))
  IN  [k \in {key \in DOMAIN cells : cells[key] # Undef} |-> cells[k]]

\* rows with numbers, zeros, empty cells, text in a metric column and
\* missing keys
ChartRows ==
  { ChartRow(Num(5), Num(4), Num(2), Num(1)),
    ChartRow(Null, Num(0), Num(0), Num(0)),
    ChartRow(Str(<<"a">>), Undef, Num(3), Null),
    ChartRow(Num(0), Num(3), Str(<<"a">>), Num(2)),
    ChartRow(Undef, Undef, Undef, Num(6)) }

InitAggregate ==
  /\ StageIdle
  /\ \E data \in SeqsUpTo(ChartRows, MaxChartRows) : stageIn = [data |-> data]
  /\ stageOut = NoStage

EvalAggregate ==
  /\ ~stageOut.done
  /\ stageOut' = [done |-> TRUE, result |-> Metrics(stageIn.data)]
  /\ UNCHANGED <<stageIn, homeVars, barVars, tableVars>>

SpecAggregate == InitAggregate /\ [][EvalAggregate]_vars

----------------------------------------------------------------------------
(* The pick-list of step 2 evaluated on its own, over records as the       *)
(* filter bar parses them: every cell is a text, and a line with too few   *)
(* fields leaves the key out of its record.                                *)

\* the longest record sequence handed to the pick-list
MaxOptionRows == 3

\* the cell texts of the column; Undef stands for a record without the key
OptionCells ==
  { Str(<<>>), Str(<<"0">>), Str(<<"1", "0">>), Str(<<"5">>), Str(<<"a">>),
    Str(<<"B", "a">>), Str(<<"a", "b">>), Undef }

\* a record of the filter bar with the given cell in the spend column
OptionRow(cell) ==
  IF cell = Undef THEN (<<"t", "a", "g">> :> Str(<<"a">>))
  ELSE (<<"t", "a", "g">> :> Str(<<"a">>)) @@ (<<"s", "p", "e", "n", "d">> :> cell)

InitOptions ==
  /\ StageIdle
  /\ \E cells \in SeqsUpTo(OptionCells, MaxOptionRows) :
       stageIn = [rows |-> [i \in 1..Len(cells) |-> OptionRow(cells[i])],
                  name |-> <<"s", "p", "e", "n", "d">>]
  /\ stageOut = NoStage

EvalOptions ==
  /\ ~stageOut.done
  /\ stageOut' = [done |-> TRUE,
                  result |-> ValueOptions(stageIn.rows, stageIn.name)]
  /\ UNCHANGED <<stageIn, homeVars, barVars, tableVars>>

SpecOptions == InitOptions /\ [][EvalOptions]_vars

----------------------------------------------------------------------------
(* The operations that read the loaded rows, one after the other: a commit *)
(* of the filter bar, the search box, a sort request, the pager and the    *)
(* export, on the mounted table.                                           *)

\* the clause lists waiting in the builder when the table is mounted
FrameClauses ==
  {ClauseOf(e) : e \in {r \in ReadyEditors :
     r.operator = "greater than" /\ r.numVal = <<"0">>}}

InitFrame ==
  /\ LoadedInit
  /\ ParkedInit
  /\ \/ pending = <<>>
     \/ \E c \in FrameClauses : pending = <<c>>

NextFrame ==
  \/ ToggleOpen
  \/ ApplyFilters
  \/ SetViewMode("table")
  \/ SetSearch(<<"a">>)
  \/ clearSearch
  \/ requestSort(SortKey)
  \/ SetItemsPerPage(5)
  \/ PrevPage
  \/ \E total \in {totalPages} : NextPage(total)
  \/ exportToCSV

SpecFrame == InitFrame /\ [][NextFrame]_vars

----------------------------------------------------------------------------
(* RowDetail: the page of the route /row/:id.  It parses the file as Home  *)
(* does and looks the row up by the index Home gave it.  The router keeps  *)
(* the page mounted when only the id of the route changes; stageIn is the  *)
(* route, stageOut.result the state of the page, and stageOut.done says    *)
(* that the effect has run for the route.                                  *)

\* the ids a route is opened with
RouteIds ==
  { <<"0">>, <<"1">>, <<"2">>, <<"5">>, <<"0", "5">>, <<"1", "0">>,
    <<"1", "1">>, <<"1", "2">>, <<"9", "9">>, <<"a">> }

\* useState(null), useState(true), useState(null)
RowDetailInit ==
  [rowData |-> <<>>, loading |-> TRUE, error |-> <<>>]

\* data.find(row => row.id === Number(id)): the rows found, none or one
foundRow(data, id) ==
  LET n == StringToNumber(id)
      found == {i \in 1..Len(data) : ~n.nan /\ Get(data[i], IdKey) = Num(n.n)}
  IN  IF found = {} THEN <<>>
      ELSE <<data[CHOOSE i \in found : \A j \in found : i <= j]>>

InitRowDetail ==
  /\ StageIdle
  /\ \E id \in RouteIds : stageIn = [id |-> id]
  /\ stageOut = [done |-> FALSE, result |-> RowDetailInit]

\* the effect of RowDetail for the id of the route
LoadRow ==
  /\ ~stageOut.done
  /\ LET found == foundRow(ParseHome(CsvRows), stageIn.id)
         before == stageOut.result
     IN  stageOut' =
           [done |-> TRUE,
            result |->
              [rowData |-> IF found # <<>> THEN found ELSE before.rowData,
               error |-> IF found # <<>> THEN before.error
                         ELSE <<"Row not found">>,
               loading |-> FALSE]]
  /\ UNCHANGED <<stageIn, homeVars, barVars, tableVars>>

\* the route changes to another id while the page stays mounted
ChangeRoute(id) ==
  /\ stageOut.done
  /\ id # stageIn.id
  /\ stageIn' = [id |-> id]
  /\ stageOut' = [stageOut EXCEPT !.done = FALSE]
  /\ UNCHANGED <<homeVars, barVars, tableVars>>

NextRowDetail ==
  \/ LoadRow
  \/ \E id \in RouteIds : ChangeRoute(id)

SpecRowDetail == InitRowDetail /\ [][NextRowDetail]_vars

----------------------------------------------------------------------------
(* The claims.                                                             *)

InSeq(x, seq) == \E j \in 1..Len(seq) : seq[j] = x

\* C1: while the table is shown the page index stays within 1..totalPages,
\* where totalPages = max(ceil(rowCount / pageSize), 1), whatever searches,
\* sorts, page-size changes, page buttons and filter commits happened.
C1_PageWithinRange ==
  Mounted => (1 <= currentPage /\ currentPage <= totalPages)

\* C2: every step that changes the search term, the committed filter set,
\* the sort spec or the page size leaves the page index at 1.
C2_ChangeResetsPage ==
  [][(\/ search' # search
      \/ activeFilters' # activeFilters
      \/ homeLogic' # homeLogic
      \/ sortConfig' # sortConfig
      \/ itemsPerPage' # itemsPerPage) => currentPage' = 1]_vars

\* C3: with a non-empty committed filter set a record of the loaded data is
\* in the filtered view iff every clause matches it (AND), or iff at least
\* one clause matches it (OR), whichever fields the clauses are about.
C3_CombinatorUniform ==
  Len(activeFilters) > 0 =>
    \A i \in 1..Len(tableData) :
       InSeq(tableData[i], filteredData) <=>
         IF homeLogic = "AND"
         THEN \A k \in 1..Len(activeFilters) :
                 matchesFilter(tableData[i], activeFilters[k])
         ELSE \E k \in 1..Len(activeFilters) :
                 matchesFilter(tableData[i], activeFilters[k])

\* an OR of two clauses on different fields was committed, and some record
\* of the view matches one clause only
C3_Witness ==
  /\ Len(activeFilters) = 2
  /\ homeLogic = "OR"
  /\ activeFilters[1].category.name # activeFilters[2].category.name
  /\ \E j \in 1..Len(filteredData) :
        /\ matchesFilter(filteredData[j], activeFilters[1])
        /\ ~matchesFilter(filteredData[j], activeFilters[2])
  /\ Len(filteredData) < Len(tableData)

\* a record whose field is missing, null or not a number
NonNumericCell(v) ==
  IsNullish(v) \/ (v.t = "str" /\ ~AllDigits(Trim(v.s)))

\* C4: a numeric clause (equals, lesser than, greater than) with a numeric
\* operand matches no record whose field is missing, null or non-numeric.
C4_NonNumericNeverMatches ==
  (/\ stageOut.done
   /\ stageIn.f.isNumeric
   /\ stageIn.f.operator \in {"equals", "lesser than", "greater than"}
   /\ ~stageIn.f.value.arr
   /\ AllDigits(stageIn.f.value.s)
   /\ NonNumericCell(stageIn.raw))
  => stageOut.result = FALSE

C6_ViewFollowsCommit ==
  /\ [](filteredData = FilterResult(tableData, activeFilters, homeLogic))
  /\ [][(\/ pending' # pending
         \/ logic' # logic
         \/ step' # step
         \/ selectedCol' # selectedCol
         \/ activeTab' # activeTab
         \/ open')
        => UNCHANGED <<filteredData, activeFilters, homeLogic>>]_vars

\* one clause was committed, then a clause was added and the switch set to
\* OR, and the view still shows the committed filter
C6_Witness ==
  /\ Len(activeFilters) = 1
  /\ Len(pending) = 2
  /\ logic = "OR" /\ homeLogic = "AND"
  /\ open
  /\ Len(filteredData) < Len(tableData)

\* C7: the search term is trimmed and lower-cased, and a term that is then
\* empty (white space only included) lets every record pass.
C7_BlankTermPassesAll ==
  (stageOut.done /\ Trim(ToLowerCase(stageIn.search)) = <<>>)
  => stageOut.result = stageIn.data

\* C8 as stated: with a non-empty term t a record is kept iff one of its
\* fields, stringified and lower-cased, contains t; a null field counts
\* with its text "null".
C8_AnyFieldContains ==
  (stageOut.done /\ stageIn.search # <<>>) =>
    \A i \in 1..Len(stageIn.data) :
       InSeq(stageIn.data[i], stageOut.result) <=>
         \E k \in DOMAIN stageIn.data[i] :
            Includes(ToLowerCase(JsString(stageIn.data[i][k])),
                     ToLowerCase(stageIn.search))

\* C8 as amended: with a non-empty search text, t being its lower-cased
\* form, a record is kept iff one of its fields that is neither null nor
\* undefined, stringified and lower-cased, contains t; every column counts,
\* shown or hidden.
C8_AnyNonNullFieldContains ==
  (stageOut.done /\ stageIn.search # <<>>) =>
    \A i \in 1..Len(stageIn.data) :
       InSeq(stageIn.data[i], stageOut.result) <=>
         \E k \in DOMAIN stageIn.data[i] :
            /\ stageIn.data[i][k].t \in {"num", "str"}
            /\ Includes(ToLowerCase(JsString(stageIn.data[i][k])),
                        ToLowerCase(stageIn.search))

\* the term "n" was searched: a record with a null field and no "n" in its
\* other fields was dropped, a record with "n" in its tag was kept
C8_Witness ==
  /\ stageOut.done
  /\ stageIn.search = <<"n">>
  /\ Len(stageIn.data) = 2
  /\ Len(stageOut.result) = 1
  /\ \E i \in 1..2 : \E k \in DOMAIN stageIn.data[i] :
        stageIn.data[i][k] = Null /\ ~InSeq(stageIn.data[i], stageOut.result)
  /\ \E k \in DOMAIN stageOut.result[1] :
        stageOut.result[1][k] = Str(<<"a", "n">>)

\* C9: under a sort spec of either direction every record whose sort key
\* is null or undefined comes after every record whose sort key is
\* defined, and the sorted sequence holds the records given to it.
C9_NullsLast ==
  stageOut.done =>
    LET r == stageOut.result
        key == stageIn.config.key
    IN  /\ Len(r) = Len(stageIn.data)
        /\ \A i \in 1..Len(r) : InSeq(stageIn.data[i], r)
        /\ \A i, j \in 1..Len(r) :
              (i < j /\ IsNullish(Get(r[i], key))) => IsNullish(Get(r[j], key))

\* [5, null, 20] sorted descending is [20, 5, null]
C9_Witness ==
  /\ stageOut.done
  /\ stageIn.config.direction = "desc"
  /\ Len(stageIn.data) = 3
  /\ Get(stageIn.data[1], SortKey) = Num(5)
  /\ Get(stageIn.data[2], SortKey) = Null
  /\ Get(stageIn.data[3], SortKey) = Num(20)
  /\ stageOut.result = <<stageIn.data[3], stageIn.data[1], stageIn.data[2]>>

\* C10: for every preset page size the pages 1..totalPages, one after the
\* other, are exactly the sorted-filtered sequence: no row twice, none
\* missing.
C10_PagesCoverSorted ==
  stageOut.done => stageOut.result = stageIn.data

\* six pages of five rows, the last one short
C10_Witness ==
  /\ stageOut.done
  /\ stageIn.perPage = 5
  /\ Len(stageIn.data) = 26
  /\ TotalPages(Len(stageIn.data), stageIn.perPage) = 6
  /\ Len(PaginatedData(stageIn.data, 6, 5)) = 1
  /\ Len(stageOut.result) = 26

\* C11: the exported file holds every row of the filtered-and-sorted
\* sequence, whatever the page and the page size, and its columns are the
\* columns of the table header in the order the table shows them (on a
\* window wide enough to show every visible column), after any column
\* toggles.
C11_ExportFollowsTable ==
  [][(~stageOut.done /\ stageOut'.done) =>
       stageOut'.result =
         CsvContent(sorted,
                    HeaderColumns(Columns(filteredData), visibleColumns,
                                  "desktop"))]_vars

\* C12: the classifier gives one descriptor per header, in header order and
\* under the header's own name; the category comes from the trimmed,
\* lower-cased name alone: Metric when it is a key of the metric catalog,
\* else Tag when it contains "tag", else Dimension.
C12_ClassifierPrecedence ==
  stageOut.done =>
    /\ Len(stageOut.result) = Len(stageIn.headers)
    /\ \A j \in 1..Len(stageIn.headers) :
         LET key == ToLowerCase(Trim(stageIn.headers[j]))
             d == stageOut.result[j]
         IN  /\ d.name = stageIn.headers[j]
             /\ d.type = "Metrics" <=> key \in metricKeys
             /\ d.type = "Tags" <=>
                  (key \notin metricKeys /\ Includes(key, TagWord))
             /\ d.type = "Dimensions" <=>
                  (key \notin metricKeys /\ ~Includes(key, TagWord))

\* "install_tag" was classified as a Tag and " Spend " as a Metric
C12_Witness ==
  /\ stageOut.done
  /\ stageIn.headers = << <<"i", "n", "s", "t", "a", "l", "l", "_", "t", "a", "g">>, <<" ", "S", "p", "e", "n", "d", " ">> >>
  /\ stageOut.result[1].type = "Tags"
  /\ stageOut.result[2].type = "Metrics"

\* the first n elements of a sequence
FirstN(seq, n) == SubSeq(seq, 1, IF Len(seq) < n THEN Len(seq) ELSE n)

\* the field is numeric as C13 words it: a Metric, or a name ending in "id"
\* whatever the case, or a non-empty sample of up to 10 non-null values that
\* all parse as finite numbers
IsNumericField(fbRows, col) ==
  LET values == [i \in 1..Len(fbRows) |-> Get(fbRows[i], col.name)]
      sample == FirstN(SelectSeq(values, LAMBDA v : ~IsNullish(v)), 10)
  IN  \/ col.type = "Metrics"
      \/ Len(col.name) >= 2
         /\ ToLowerCase(SubSeq(col.name, Len(col.name) - 1, Len(col.name)))
              = <<"i", "d">>
      \/ Len(sample) > 0
         /\ \A i \in 1..Len(sample) : ~JsNumber(sample[i]).nan

ValidOperator(clause) ==
  IF clause.isNumeric
  THEN clause.operator \in {"equals", "greater than", "lesser than"}
  ELSE clause.operator \in {"is", "is not", "contains", "does not contain"}

\* C14: whatever the builder did (pick a column, change the operator, go
\* back, add a clause with the jump to creative_name after a Tag clause,
\* delete a clause), every pending clause and every committed clause has an
\* operator of its mode: equals, greater than or lesser than when numeric,
\* is, is not, contains or does not contain when text.
C14_OperatorValidForMode ==
  /\ \A k \in 1..Len(pending) : ValidOperator(pending[k])
  /\ \A k \in 1..Len(activeFilters) : ValidOperator(activeFilters[k])

\* a Tag clause was added, the builder jumped to creative_name, and the
\* clause added there took an operator chosen after the jump
C14_Witness ==
  /\ Len(pending) = 2
  /\ pending[1].category.type = "Tags"
  /\ pending[2].category.name = CreativeName
  /\ pending[2].operator = "does not contain"
  /\ step = 1

\* an operand C15 counts as not parsing as a number: a string that is not a
\* numeric literal (the empty and the blank string among them), or the
\* empty list
UnparsableOperand(value) ==
  IF value.arr THEN Len(value.items) = 0 ELSE ~AllDigits(Trim(value.s))

C16_EmptyFilterSetIsIdentity ==
  Len(activeFilters) = 0 => filteredData = tableData

\* an empty filter set was committed under OR
C16_Witness ==
  /\ Len(activeFilters) = 0
  /\ homeLogic = "OR"
  /\ Len(tableData) > 0
  /\ filteredData = tableData

\* a is b with some elements left out: the elements of a are elements of b
\* at increasing positions
RECURSIVE IsSubsequence(_, _)
IsSubsequence(a, b) ==
  IF a = <<>> THEN TRUE
  ELSE IF b = <<>> THEN FALSE
  ELSE IF Head(a) = Head(b) THEN IsSubsequence(Tail(a), Tail(b))
  ELSE IsSubsequence(a, Tail(b))

\* C17: the filtered view is a subsequence of the loaded records: loaded
\* records only, none twice, in the order of the loaded sequence.
C17_FilteredIsSubsequence ==
  /\ IsSubsequence(filteredData, tableData)
  /\ \A i, j \in 1..Len(filteredData) :
        filteredData[i] = filteredData[j] => i = j

\* a committed filter set keeps several records that are not neighbours in
\* the loaded sequence and drops the first one
C17_Witness ==
  /\ Len(activeFilters) > 0
  /\ Len(filteredData) >= 2
  /\ filteredData[1] # tableData[1]
  /\ \E i \in 1..(Len(tableData) - 2) :
        /\ filteredData[1] = tableData[i]
        /\ filteredData[2] # tableData[i + 1]

\* the value C18 counts for a cell: the number itself, 0 for a missing,
\* empty or non-numeric cell
CountedValue(row, key) ==
  LET v == Get(row, key)
  IN  IF v.t = "num" THEN v.n
      ELSE IF v.t = "str" /\ AllDigits(Trim(v.s)) THEN DigitsToNat(Trim(v.s))
      ELSE 0

RECURSIVE SumOf(_, _)
SumOf(data, key) ==
  IF data = <<>> THEN 0
  ELSE CountedValue(Head(data), key) + SumOf(Tail(data), key)

\* C18: the totals of spend, impressions, clicks and installs are the sums
\* of the field over all input records, a missing or non-numeric value
\* counting as 0.
C18_TotalsAreSums ==
  stageOut.done =>
    /\ stageOut.result.totals.spends = Finite(SumOf(stageIn.data, SpendKey))
    /\ stageOut.result.totals.impressions =
         Finite(SumOf(stageIn.data, ImpressionsKey))
    /\ stageOut.result.totals.clicks = Finite(SumOf(stageIn.data, ClicksKey))
    /\ stageOut.result.totals.installs =
         Finite(SumOf(stageIn.data, InstallsKey))

\* three records were summed, one of them with a text cell and one with
\* missing keys, and the totals are not zero
C18_Witness ==
  /\ stageOut.done
  /\ Len(stageIn.data) = 3
  /\ \E i \in 1..3 : Get(stageIn.data[i], SpendKey).t = "str"
  /\ \E i \in 1..3 : Get(stageIn.data[i], ImpressionsKey) = Undef
  /\ stageOut.result.totals.spends.n > 0
  /\ stageOut.result.totals.impressions.n > 0

\* C19: ctr is the string "0" whenever the total of impressions is 0 and cvr
\* is the string "0" whenever the total of clicks is 0; no records give
\* all-zero totals, ctr "0" and cvr "0".
C19_ZeroDenominatorGivesZero ==
  stageOut.done =>
    /\ stageOut.result.totals.impressions = Finite(0)
         => stageOut.result.ctr = <<"0">>
    /\ stageOut.result.totals.clicks = Finite(0)
         => stageOut.result.cvr = <<"0">>
    /\ stageIn.data = <<>> =>
         /\ stageOut.result.totals = ZeroTotals
         /\ stageOut.result.ctr = <<"0">>
         /\ stageOut.result.cvr = <<"0">>

\* records with clicks but no impressions were aggregated: ctr is "0" and
\* cvr is a percentage
C19_Witness ==
  /\ stageOut.done
  /\ Len(stageIn.data) > 0
  /\ stageOut.result.totals.impressions = Finite(0)
  /\ stageOut.result.totals.clicks.n > 0
  /\ stageOut.result.ctr = <<"0">>
  /\ stageOut.result.cvr # <<"0">>

\* C20: the pick-list of a field holds exactly the string forms of the
\* field's non-null values over the records, none twice, in ascending order
\* of their code units; a null or undefined value gives no entry.
C20_PickListIsSortedDistinct ==
  stageOut.done =>
    LET options == stageOut.result
        present == {k \in 1..Len(stageIn.rows) :
                      ~IsNullish(Get(stageIn.rows[k], stageIn.name))}
    IN  /\ {options[i] : i \in 1..Len(options)} =
             {JsString(Get(stageIn.rows[k], stageIn.name)) : k \in present}
        /\ \A i \in 1..(Len(options) - 1) :
              CodeUnitLess(options[i], options[i + 1])

\* three records, one without the key and two with the same text out of
\* order with a third: the pick-list has two entries, "10" before "5"
C20_Witness ==
  /\ stageOut.done
  /\ Len(stageIn.rows) = 3
  /\ \E i \in 1..3 : Get(stageIn.rows[i], stageIn.name) = Undef
  /\ Get(stageIn.rows[1], stageIn.name) = Str(<<"5">>)
  /\ stageOut.result = << <<"1", "0">>, <<"5">> >>


\* C21: under a sort spec of either direction two records whose sort-key
\* values compare equal (two records without a value among them) stand in
\* the sorted sequence in the order they had in the sequence given to the
\* sort stage.
C21_SortIsStable ==
  stageOut.done =>
    LET d == stageIn.data
        r == stageOut.result
        Place(row) == CHOOSE p \in 1..Len(r) : r[p] = row
    IN  \A i, j \in 1..Len(d) :
          (i < j /\ Comparator(d[i], d[j], stageIn.config) = 0)
            => Place(d[i]) < Place(d[j])


\* C22: no search, sort, pagination, commit or export step changes the
\* loaded records, and only a commit of the filter bar replaces the
\* sequence given to the table: every other step leaves it as it was.
C22_InputsNotChanged ==
  [][/\ tableData' = tableData
     /\ filteredData' # filteredData =>
          (open /\ ~open' /\ filteredData' = FilterResult(tableData, pending, logic))]_vars

\* a filter was committed, a search typed, a column sorted, the second page
\* opened and the file exported, and the loaded rows are the parsed file
C22_Witness ==
  /\ activeFilters # <<>>
  /\ Len(filteredData) < Len(tableData)
  /\ search # <<>>
  /\ sortConfig # NoSort
  /\ currentPage = 2
  /\ stageOut.done
  /\ tableData = LoadedRows


\* C23: the comparator of the sort is a consistent ordering of the cells of
\* a column that are not null: whenever a sorts before or with b and b
\* before or with c, a sorts before or with c.
C23_ComparatorIsTransitive ==
  stageOut.done =>
    LET dir == stageIn.config.direction
        cells == {Get(stageIn.data[i], stageIn.config.key) :
                    i \in 1..Len(stageIn.data)} \ {Null, Undef}
        Le(a, b) == CompareCells(a, b, dir) <= 0
    IN  \A a, b, c \in cells : (Le(a, b) /\ Le(b, c)) => Le(a, c)


\* C24: when the committed filter set is the single text clause "field is v"
\* and v is an entry of the field's pick-list, the filtered view holds
\* every loaded record whose cell in the file gave the entry v, and so at
\* least one record.
C24_PickListValueFindsItsRows ==
  LET f == activeFilters[1]
      v == IF f.value.arr THEN f.value.items[1] ELSE f.value.s
  IN  (/\ Len(activeFilters) = 1
       /\ ~f.isNumeric
       /\ f.operator = "is"
       /\ f.value.arr => Len(f.value.items) = 1
       /\ ArrIncludes(ValueOptions(rows, f.category.name), v))
      => /\ filteredData # <<>>
         /\ \A i \in 1..Len(rows) :
               (~IsNullish(Get(rows[i], f.category.name))
                /\ JsString(Get(rows[i], f.category.name)) = v)
                 => InSeq(tableData[i], filteredData)


\* C25: whenever the dropdown of the filter bar is closed, the clause list
\* shown and counted on the Filters badge is the clause list applied to the
\* data.
C25_BadgeShowsAppliedFilters ==
  ~open => pending = activeFilters


\* C26: a sort request on column k makes the sort spec (k, desc) exactly
\* when the spec was (k, asc) and (k, asc) in every other case; a request
\* never leaves the table without a sort spec.
C26_SortRequestToggles ==
  [][(sortConfig' # sortConfig /\ viewMode' = viewMode) =>
       /\ sortConfig' # NoSort
       /\ ArrIncludes(Columns(filteredData), sortConfig'.key)
       /\ sortConfig'.direction \in {"asc", "desc"}
       /\ sortConfig'.direction = "desc" <=>
            sortConfig = [key |-> sortConfig'.key, direction |-> "asc"]]_vars

\* the spend column was requested twice: the table is on its first page,
\* sorted by spend descending, and its rows are not in load order
C26_Witness ==
  /\ Mounted
  /\ sortConfig = [key |-> SortKey, direction |-> "desc"]
  /\ currentPage = 1
  /\ sorted # filteredData


\* the operand has the shape the column and the operator of the clause ask
\* for, and is not empty
OperandShaped(clause) ==
  LET value == clause.value
      single == ~value.arr /\ value.s # <<>>
  IN  CASE clause.category.type = "Metrics" ->
             single /\ ~StringToNumber(value.s).nan
        [] clause.category.type = "Tags" -> single
        [] OTHER ->
             IF clause.operator \in {"is", "is not"}
             THEN value.arr /\ value.items # <<>>
             ELSE single /\ clause.operator \in {"contains", "does not contain"}

\* C27: every clause of the pending list has a non-empty operand of the
\* shape its column and operator require: a numeric text for a Metric
\* column, a text for a Tag column, a list for a Dimension column with
\* is / is not and a text with contains / does not contain.
C27_OperandHasRequiredShape ==
  \A i \in 1..Len(pending) : OperandShaped(pending[i])

\* a contains clause with a text and an is-not clause with a list of
\* values are pending
C27_Witness ==
  /\ Len(pending) = 2
  /\ pending[1].operator = "contains"
  /\ pending[1].value = StrValue(<<"a">>)
  /\ pending[2].operator = "is not"
  /\ pending[2].value.arr
  /\ pending[2].value.items # <<>>


\* C28: in the filter builder step 2 holds exactly when a column is
\* selected and step 1 exactly when none is; a step that adds a Tag clause
\* ends in step 2 on the creative_name column when the file has such a
\* column, and in step 1 without a selection otherwise.
C28_StepFollowsSelection ==
  /\ [](step \in {1, 2} /\ (step = 2 <=> selectedCol # NoCol))
  /\ [][(/\ Len(pending') = Len(pending) + 1
         /\ pending'[Len(pending')].category.type = "Tags")
        => LET named == {i \in 1..Len(cols) :
                           ToLowerCase(cols[i].name) = CreativeName}
           IN  IF named = {}
               THEN step' = 1 /\ selectedCol' = NoCol
               ELSE /\ step' = 2
                    /\ \E i \in named : /\ selectedCol' = cols[i]
                                        /\ \A j \in named : i <= j]_vars

\* a Tag clause was added with a file that has no creative_name column: the
\* builder is back in step 1, on the Dimensions tab, with no selection
C28_Witness ==
  /\ Len(cols) = 2
  /\ Len(pending) = 1
  /\ pending[1].category.type = "Tags"
  /\ activeTab = "Dimensions"
  /\ step = 1
  /\ selectedCol = NoCol


\* C29: with a dataset that is not empty, the list of visible columns of
\* the mounted table is never empty, names no column twice and names only
\* columns of the dataset, whatever columns were toggled; a toggle of the
\* only visible column leaves the list as it is.
C29_VisibleColumnsWellFormed ==
  (Mounted /\ Len(filteredData) > 0) =>
    /\ Len(visibleColumns) > 0
    /\ \A i, j \in 1..Len(visibleColumns) :
          visibleColumns[i] = visibleColumns[j] => i = j
    /\ \A i \in 1..Len(visibleColumns) :
          ArrIncludes(Columns(filteredData), visibleColumns[i])
    /\ Len(visibleColumns) = 1 =>
          ToggledColumns(visibleColumns, visibleColumns[1]) = visibleColumns

\* every column but spend was hidden: spend is the only visible column
C29_Witness ==
  /\ Mounted
  /\ Len(filteredData) > 0
  /\ visibleColumns = <<SortKey>>


\* C30: once the row detail page has loaded for the id of its route, it
\* holds either the row or the error and never both: the row Home gave that
\* index and no error when the id is the index of a loaded row, the error
\* "Row not found" and no row otherwise.
C30_RowOrError ==
  stageOut.done =>
    LET n == StringToNumber(stageIn.id)
        page == stageOut.result
    IN  IF ~n.nan /\ n.n < Len(LoadedRows)
        THEN page.rowData = <<LoadedRows[n.n + 1]>> /\ page.error = <<>>
        ELSE page.rowData = <<>> /\ page.error = <<"Row not found">>

====
